---- MODULE Spec2Model ----
(***************************************************************************)
(* examples/title.py: list the sub-directories of the current directory,   *)
(* sort them, and print one Markdown heading with a link per directory.    *)
(*                                                                         *)
(* Strings are sequences of Unicode code points; a Path is the sequence of *)
(* its parts (a child of Path('.') has the single part <<name>>).  The     *)
(* standard output is the sequence of byte strings handed to it, one per   *)
(* print call.                                                             *)
(***************************************************************************)
EXTENDS Integers, Sequences, FiniteSets

VARIABLES
    fs,        \* the current directory: entry name -> "dir" or "file"
    flavour,   \* "posix" or "nt": the class Path() instantiates
    errors,    \* the error handler of sys.stdout's encoder
    run,       \* 1 in the first run of the program, 2 in the second
    pc,        \* "start", "filter", "loop", "done" or "failed"
    listing,   \* the names in the order os.listdir returned them
    pending,   \* the paths p.iterdir() has still to yield
    dirs,      \* the list dirs
    i,         \* the position of the for loop in dirs
    stdout,    \* the byte strings written, one per print call
    err,       \* the exception that ended the run, or "none"
    status,    \* the exit status, -1 while the program runs
    prevOut,   \* stdout of the first run
    prevErr,   \* err of the first run
    reordered  \* the second run's listing order differs from the first's

vars == <<fs, flavour, errors, run, pc, listing, pending, dirs, i, stdout,
          err, status, prevOut, prevErr, reordered>>

---------------------------------------------------------------------------
(* Bounds of the checked directories. *)

\* longest name of a directory that holds a single entry
MaxLen == 3

\* most entries of a directory whose names come from SampleNames
MaxEntries == 3

---------------------------------------------------------------------------
(* Characters. *)

\* "-", the separator of str(dir).split("-")
HYPHEN == 45

\* " ", the string of " ".join(...)
SPACE == 32

\* "\n", of the literal's "\n\n" and of print's end
NEWLINE == 10

\* "/", the separator of a Path's parts in str(path)
SLASH == 47

\* "-", "2", "B", "a", "b" and U+DCFF, the lone surrogate that os.fsdecode
\* gives for the file-name byte 0xFF, which is not UTF-8
Alphabet == {45, 50, 66, 97, 98, 56575}

\* "B", "a", "b", "a-", "\udcff"
SampleNames == { <<66>>, <<97>>, <<98>>, <<97, 45>>, <<56575>> }

Names == UNION { [1..n -> Alphabet] : n \in 1..MaxLen }

Kinds == {"dir", "file"}

IsUpper(c) == c >= 65 /\ c <= 90

IsLower(c) == c >= 97 /\ c <= 122

\* str.title's notion of a cased character
IsCased(c) == IsUpper(c) \/ IsLower(c)

Upper(c) == IF IsLower(c) THEN c - 32 ELSE c

Lower(c) == IF IsUpper(c) THEN c + 32 ELSE c

\* U+DC80..U+DCFF: what surrogateescape decoding makes of a byte >= 0x80
IsSurrogate(c) == c >= 56448 /\ c <= 56575

LowerStr(s) == [k \in 1..Len(s) |-> Lower(s[k])]

---------------------------------------------------------------------------
(* Path: construction, str(), ordering. *)

\* p.iterdir() yields Path('.') / name, whose parts are (name,)
ChildPath(name) == <<name>>

RECURSIVE JoinNoSep(_, _)
\* "".join(segs): the separator forgotten
JoinNoSep(segs, sep) ==
    IF Len(segs) = 0 THEN <<>> ELSE segs[1] \o JoinNoSep(Tail(segs), sep)

RECURSIVE Join(_, _)
\* sep.join(segs)
Join(segs, sep) ==
    IF Len(segs) = 0 THEN <<>>
    ELSE IF Len(segs) = 1 THEN segs[1]
    ELSE segs[1] \o <<sep>> \o Join(Tail(segs), sep)

\* str(path): the parts joined by the separator
Str(p) == Join(p, SLASH)

\* code-point order of two strings (str.__lt__)
StrLess(s, t) ==
    \E k \in 1..(Len(s) + 1) :
        /\ k <= Len(t)
        /\ \A j \in 1..(k - 1) : s[j] = t[j]
        /\ (k = Len(s) + 1 \/ s[k] < t[k])

\* order of two lists of strings (list.__lt__)
PartsLess(p, q) ==
    \E k \in 1..(Len(p) + 1) :
        /\ k <= Len(q)
        /\ \A j \in 1..(k - 1) : p[j] = q[j]
        /\ (k = Len(p) + 1 \/ StrLess(p[k], q[k]))

\* the parts as PurePath compares them: as they are on POSIX, lower-cased
\* on Windows
NormCase(p, flav) ==
    IF flav = "nt" THEN [k \in 1..Len(p) |-> LowerStr(p[k])] ELSE p

\* PurePath.__lt__
PathLess(p, q, flav) == PartsLess(NormCase(p, flav), NormCase(q, flav))

\* x put into the sorted list s behind every element that is not greater
Insert(s, x, flav) ==
    LET k == Cardinality({j \in 1..Len(s) : ~PathLess(x, s[j], flav)})
    IN  SubSeq(s, 1, k) \o <<x>> \o SubSeq(s, k + 1, Len(s))

RECURSIVE SortFrom(_, _, _, _)
SortFrom(l, k, acc, flav) ==
    IF k > Len(l) THEN acc
    ELSE SortFrom(l, k + 1, Insert(acc, l[k], flav), flav)

NoSort(l, flav) == l

\* list.sort(): a stable sort by PurePath.__lt__
SortPaths(l, flav) == SortFrom(l, 1, <<>>, flav)

---------------------------------------------------------------------------
(* The title and the printed line. *)

\* a split that drops the empty substrings, as s.split() without a
\* separator does
SplitDropEmpty(s, sep) ==
    LET cut == {0, Len(s) + 1} \cup {k \in 1..Len(s) : s[k] = sep}
        starts == {k \in cut : k < Len(s) /\ (k + 1) \notin cut}
        EndOf(a) == CHOOSE b \in cut : b > a /\ \A c \in cut : c > a => b <= c
        RECURSIVE Segs(_)
        Segs(S) ==
            IF S = {} THEN <<>>
            ELSE LET a == CHOOSE x \in S : \A y \in S : x <= y
                 IN  <<SubSeq(s, a + 1, EndOf(a) - 1)>> \o Segs(S \ {a})
    IN  Segs(starts)

RECURSIVE Split(_, _)
\* s.split(sep): the substrings between the separators, empty ones kept
Split(s, sep) ==
    IF \A k \in 1..Len(s) : s[k] # sep THEN <<s>>
    ELSE LET k == CHOOSE j \in 1..Len(s) :
                      /\ s[j] = sep
                      /\ \A h \in 1..(j - 1) : s[h] # sep
         IN  <<SubSeq(s, 1, k - 1)>> \o Split(SubSeq(s, k + 1, Len(s)), sep)

\* str.capitalize: what a first-letter-only title case would be
Capitalize(s) ==
    [k \in 1..Len(s) |-> IF k = 1 THEN Upper(s[k]) ELSE Lower(s[k])]

\* str.title(): a character is title-cased unless the character before it
\* is cased, and lower-cased if it is
Title(s) ==
    [k \in 1..Len(s) |->
        IF k > 1 /\ IsCased(s[k - 1]) THEN Lower(s[k]) ELSE Upper(s[k])]

\* " ".join([name.title() for name in s.split("-")])
FolderName(s) ==
    LET parts == Split(s, HYPHEN)
    IN  Join([k \in 1..Len(parts) |-> Title(parts[k])], SPACE)

\* "## [" and "](/examples/" and ")"
HeadOpen == <<35, 35, 32, 91>>

LinkOpen == <<93, 40, 47, 101, 120, 97, 109, 112, 108, 101, 115, 47>>

LinkClose == <<41>>

LineTitleAsTarget(dir) ==
    HeadOpen \o FolderName(Str(dir)) \o LinkOpen \o FolderName(Str(dir))
        \o LinkClose \o <<NEWLINE, NEWLINE>>

\* f"## [{folder_name}](/examples/{str(dir)})\n\n"
Line(dir) ==
    HeadOpen \o FolderName(Str(dir)) \o LinkOpen \o Str(dir)
        \o LinkClose \o <<NEWLINE, NEWLINE>>

PrintedNoEnd(text) == text

\* what print(text) hands to sys.stdout: the text and end="\n"
Printed(text) == text \o <<NEWLINE>>

\* whether sys.stdout's encoder takes the text: a lone surrogate is refused
\* by UTF-8 with errors="strict" and written as its byte with
\* errors="surrogateescape"
Encodable(text, errs) ==
    errs = "surrogateescape" \/ \A k \in 1..Len(text) : ~IsSurrogate(text[k])

\* the bytes of the text (code points below 128 are their own byte)
Encode(text) ==
    [k \in 1..Len(text) |->
        IF IsSurrogate(text[k]) THEN text[k] - 56320 ELSE text[k]]

---------------------------------------------------------------------------
(* The directories a run is checked on. *)

\* at most MaxEntries entries with names from SampleNames
WideDirs ==
    UNION { [S -> Kinds] :
              S \in {T \in SUBSET SampleNames : Cardinality(T) <= MaxEntries} }

\* one entry with any name of at most MaxLen characters
DeepDirs == UNION { [{n} -> Kinds] : n \in Names }

\* the orders in which os.listdir may return the names
Orders(S) ==
    { s \in [1..Cardinality(S) -> S] :
        \A a, b \in 1..Cardinality(S) : a # b => s[a] # s[b] }

\* a Windows directory holds no two names that differ by case only
NamesFit(d, flav) ==
    flav = "nt" =>
        \A a, b \in DOMAIN d : a # b => LowerStr(a) # LowerStr(b)

Init ==
    /\ fs \in WideDirs \cup DeepDirs
    /\ flavour \in {"posix", "nt"}
    /\ NamesFit(fs, flavour)
    /\ errors \in {"strict", "surrogateescape"}
    /\ run = 1
    /\ pc = "start"
    /\ listing = <<>>
    /\ pending = <<>>
    /\ dirs = <<>>
    /\ i = 0
    /\ stdout = <<>>
    /\ err = "none"
    /\ status = -1
    /\ prevOut = <<>>
    /\ prevErr = "none"
    /\ reordered = FALSE

\* Path.is_dir()
is_dir(p) == fs[p[1]] = "dir"

env == <<fs, flavour, errors, run, prevOut, prevErr>>

\* p.iterdir(): os.listdir returns every name once, in some order
Listdir ==
    /\ pc = "start"
    /\ \E order \in Orders(DOMAIN fs) :
           /\ listing' = order
           /\ pending' = [k \in 1..Len(order) |-> ChildPath(order[k])]
           /\ reordered' = (run = 2 /\ prevErr # "OSError" /\ order # listing)
    /\ pc' = "filter"
    /\ UNCHANGED <<env, dirs, i, stdout, err, status>>

\* os.listdir raises OSError, which nothing catches
ListdirFails ==
    /\ pc = "start"
    /\ pc' = "failed"
    /\ err' = "OSError"
    /\ status' = 1
    /\ UNCHANGED <<env, listing, reordered, pending, dirs, i, stdout>>

\* one iteration of [x for x in p.iterdir() if x.is_dir()]
Filter ==
    /\ pc = "filter"
    /\ pending # <<>>
    /\ dirs' = IF is_dir(Head(pending)) THEN Append(dirs, Head(pending))
               ELSE dirs
    /\ pending' = Tail(pending)
    /\ UNCHANGED <<env, listing, reordered, pc, i, stdout, err, status>>

\* dirs.sort(), and the for loop starts
Sort ==
    /\ pc = "filter"
    /\ pending = <<>>
    /\ dirs' = SortPaths(dirs, flavour)
    /\ i' = 1
    /\ pc' = "loop"
    /\ UNCHANGED <<env, listing, reordered, pending, stdout, err, status>>

\* a loop that prints each directory as soon as the filter has found it
PrintBlockEarly ==
    /\ pc \in {"filter", "loop"}
    /\ Len(stdout) < Len(dirs)
    /\ Encodable(Printed(Line(dirs[Len(stdout) + 1])), errors)
    /\ stdout' = Append(stdout, Encode(Printed(Line(dirs[Len(stdout) + 1]))))
    /\ i' = Len(stdout) + 2
    /\ UNCHANGED <<env, listing, reordered, pc, pending, dirs, err, status>>

\* one iteration of the for loop whose print succeeds
PrintBlock ==
    /\ pc = "loop"
    /\ i <= Len(dirs)
    /\ Encodable(Printed(Line(dirs[i])), errors)
    /\ stdout' = Append(stdout, Encode(Printed(Line(dirs[i]))))
    /\ i' = i + 1
    /\ UNCHANGED <<env, listing, reordered, pc, pending, dirs, err, status>>

\* one iteration of the for loop whose print raises UnicodeEncodeError,
\* which nothing catches
PrintFails ==
    /\ pc = "loop"
    /\ i <= Len(dirs)
    /\ ~Encodable(Printed(Line(dirs[i])), errors)
    /\ pc' = "failed"
    /\ err' = "UnicodeEncodeError"
    /\ status' = 1
    /\ UNCHANGED <<env, listing, reordered, pending, dirs, i, stdout>>

\* the loop is exhausted and the interpreter exits
Exit ==
    /\ pc = "loop"
    /\ i > Len(dirs)
    /\ pc' = "done"
    /\ status' = 0
    /\ UNCHANGED <<env, listing, reordered, pending, dirs, i, stdout, err>>

\* the program is run a second time in the same directory and environment
Rerun ==
    /\ pc \in {"done", "failed"}
    /\ run = 1
    /\ run' = 2
    /\ prevOut' = stdout
    /\ prevErr' = err
    /\ pc' = "start"
    /\ pending' = <<>>
    /\ dirs' = <<>>
    /\ i' = 0
    /\ stdout' = <<>>
    /\ err' = "none"
    /\ status' = -1
    /\ UNCHANGED <<fs, flavour, errors, listing, reordered>>

Next ==
    \/ Listdir
    \/ ListdirFails
    \/ Filter
    \/ Sort
    \/ PrintBlock
    \/ PrintFails
    \/ Exit
    \/ Rerun

Spec == Init /\ [][Next]_vars

---------------------------------------------------------------------------
(* The printed blocks, read back from the bytes on standard output. *)

\* the first position of byte c in block b, 0 if there is none
Pos(b, c) ==
    IF \A k \in 1..Len(b) : b[k] # c THEN 0
    ELSE CHOOSE j \in 1..Len(b) : b[j] = c /\ \A h \in 1..(j - 1) : b[h] # c

\* the link text: what stands between "## [" and the first "]"
BlockTitle(b) == SubSeq(b, 5, Pos(b, 93) - 1)

\* the link target: what stands between "](" and the first ")"
BlockTarget(b) == SubSeq(b, Pos(b, 93) + 2, Pos(b, 41) - 1)

\* the link target behind its first ten bytes, "/examples/"
BlockName(b) == SubSeq(b, Pos(b, 93) + 12, Pos(b, 41) - 1)

\* what follows the first ")"
BlockTail(b) == SubSeq(b, Pos(b, 41) + 1, Len(b))

Blocks == 1..Len(stdout)

Ended == pc \in {"done", "failed"}

DirNames == {n \in DOMAIN fs : fs[n] = "dir"}

\* "/examples/"
ExamplesPrefix == <<47, 101, 120, 97, 109, 112, 108, 101, 115, 47>>

RECURSIVE Flat(_)
\* the bytes of the output, one after the other
Flat(out) == IF out = <<>> THEN <<>> ELSE Head(out) \o Flat(Tail(out))

---------------------------------------------------------------------------
(* C1: when a run that obtained the listing has ended, it has printed      *)
(* exactly one block per entry that is a directory and none for any other  *)
(* entry: as many blocks as directories, each directory the target of      *)
(* exactly one block, no plain file the target of any.                     *)
C1_OneBlockPerDirectory ==
    (Ended /\ err # "OSError") =>
        /\ Len(stdout) = Cardinality(DirNames)
        /\ \A n \in DOMAIN fs :
               Cardinality({k \in Blocks : BlockName(stdout[k]) = Encode(n)})
                   = IF fs[n] = "dir" THEN 1 ELSE 0

(* C2, as claimed: of any two printed directories the one whose path       *)
(* string is smaller in code-point order (case-sensitive) is printed       *)
(* first.                                                                  *)
C2_CodePointOrder ==
    \A j, k \in Blocks :
        StrLess(BlockName(stdout[j]), BlockName(stdout[k])) => j < k

\* the string by which the platform's Path orders a one-part path
OrderKey(name) == IF flavour = "nt" THEN LowerStr(name) ELSE name

(* C2, amended: of any two printed directories the one whose path is       *)
(* smaller as Path compares paths is printed first: by the code points of  *)
(* the path string on POSIX, of the lower-cased path string on Windows.    *)
C2_PathOrder ==
    \A j, k \in Blocks :
        StrLess(OrderKey(BlockName(stdout[j])), OrderKey(BlockName(stdout[k])))
            => j < k

\* two directories printed against the order the listing returned them in
\* and, on Windows, against the code-point order of their names
C2_Witness ==
    /\ Len(stdout) = 2
    /\ flavour = "nt"
    /\ StrLess(BlockName(stdout[2]), BlockName(stdout[1]))
    /\ \E a, b \in 1..Len(listing) :
           /\ a < b
           /\ Encode(listing[a]) = BlockName(stdout[2])
           /\ Encode(listing[b]) = BlockName(stdout[1])

\* the hyphen-free stretch a..b of n that hyphens or the ends of n enclose
IsSegment(n, a, b) ==
    /\ a <= b + 1
    /\ \A k \in a..b : n[k] # HYPHEN
    /\ (a = 1 \/ n[a - 1] = HYPHEN)
    /\ (b = Len(n) \/ n[b + 1] = HYPHEN)

(* C3: the title of a printed directory is its path string with every     *)
(* hyphen turned into exactly one space and every stretch between hyphens  *)
(* (the empty ones too, in their places) title-cased: "a-b" gives "A B",   *)
(* "b" gives "B", "a--" gives "A  ", "-a-" gives " A ".                    *)
C3_TitleFromHyphenSplit ==
    /\ \A k \in Blocks :
           LET n == BlockName(stdout[k])
               t == BlockTitle(stdout[k])
           IN  /\ Cardinality({p \in 1..Len(t) : t[p] = SPACE})
                      = Cardinality({p \in 1..Len(n) : n[p] = HYPHEN})
               /\ \A p \in 1..Len(n) : n[p] = HYPHEN => t[p] = SPACE
               /\ \A a \in 1..(Len(n) + 1), b \in 0..Len(n) :
                      IsSegment(n, a, b)
                          => SubSeq(t, a, b) = Title(SubSeq(n, a, b))
               /\ (n = <<97, 45, 98>> => t = <<65, 32, 66>>)
               /\ (n = <<98>> => t = <<66>>)
               /\ (n = <<97, 45, 45>> => t = <<65, 32, 32>>)
               /\ (n = <<45, 97, 45>> => t = <<32, 65, 32>>)
    \* "foo-bar" gives "Foo Bar", "widgets" "Widgets", "a--b" "A  B"
    /\ FolderName(<<102, 111, 111, 45, 98, 97, 114>>)
           = <<70, 111, 111, 32, 66, 97, 114>>
    /\ FolderName(<<119, 105, 100, 103, 101, 116, 115>>)
           = <<87, 105, 100, 103, 101, 116, 115>>
    /\ FolderName(<<97, 45, 45, 98>>) = <<65, 32, 32, 66>>

\* "a--" and "-a-" have been printed with their two spaces
C3_Witness ==
    \E k \in Blocks :
        \/ /\ BlockName(stdout[k]) = <<97, 45, 45>>
           /\ BlockTitle(stdout[k]) = <<65, 32, 32>>
        \/ /\ BlockName(stdout[k]) = <<45, 97, 45>>
           /\ BlockTitle(stdout[k]) = <<32, 65, 32>>

\* whether the letter at p is the first letter of its word: no letter
\* stands before it in the same stretch free of hyphens and spaces
FirstLetterOfWord(n, p) ==
    \A q \in 1..(p - 1) :
        IsCased(n[q]) => \E r \in q..p : n[r] \in {HYPHEN, SPACE}

(* C4, as claimed: a letter of the name is upper-cased in the title when   *)
(* it is the first letter of its whitespace-delimited word and lower-cased *)
(* otherwise, also behind a digit or another character that is no letter.  *)
C4_WhitespaceWords ==
    \A k \in Blocks :
        LET n == BlockName(stdout[k])
            t == BlockTitle(stdout[k])
        IN  \A p \in 1..Len(n) :
                IsCased(n[p]) =>
                    t[p] = IF FirstLetterOfWord(n, p) THEN Upper(n[p])
                           ELSE Lower(n[p])

(* C4, amended: a letter of the name is lower-cased in the title when the  *)
(* character right before it is a letter, and upper-cased otherwise: at    *)
(* the start of a segment and behind a digit or any other character that   *)
(* is no letter.  Characters that are no letters stay (the hyphen aside).  *)
C4_UpperAfterNonLetter ==
    /\ \A k \in Blocks :
           LET n == BlockName(stdout[k])
               t == BlockTitle(stdout[k])
           IN  \A p \in 1..Len(n) :
                   /\ (IsCased(n[p]) /\ p > 1 /\ IsCased(n[p - 1]))
                          => t[p] = Lower(n[p])
                   /\ (IsCased(n[p]) /\ (p = 1 \/ ~IsCased(n[p - 1])))
                          => t[p] = Upper(n[p])
                   /\ (~IsCased(n[p]) /\ n[p] # HYPHEN) => t[p] = n[p]
    \* "foo_bar" gives "Foo_Bar", "v2beta" "V2Beta", ".git" ".Git"
    /\ FolderName(<<102, 111, 111, 95, 98, 97, 114>>)
           = <<70, 111, 111, 95, 66, 97, 114>>
    /\ FolderName(<<118, 50, 98, 101, 116, 97>>)
           = <<86, 50, 66, 101, 116, 97>>
    /\ FolderName(<<46, 103, 105, 116>>) = <<46, 71, 105, 116>>

\* "a2b" has been printed as "A2B", and "aB" as "Ab"
C4_Witness ==
    /\ \E k \in Blocks :
           \/ /\ BlockName(stdout[k]) = <<97, 50, 98>>
              /\ BlockTitle(stdout[k]) = <<65, 50, 66>>
           \/ /\ BlockName(stdout[k]) = <<97, 66>>
              /\ BlockTitle(stdout[k]) = <<65, 98>>

(* C5, as claimed: every block is the heading line                         *)
(* "## [<title>](/examples/<path>)" and two newline characters.            *)
C5_TwoNewlines ==
    \A k \in Blocks :
        stdout[k] = <<35, 35, 32, 91>> \o Encode(FolderName(Str(dirs[k])))
                      \o <<93, 40>> \o ExamplesPrefix \o Encode(Str(dirs[k]))
                      \o <<41>> \o <<NEWLINE, NEWLINE>>

(* C5, amended: every block is the heading line                            *)
(* "## [<title>](/examples/<path>)" and three newline characters (the two  *)
(* of the string and the one print adds): the heading, then two blank      *)
(* lines.                                                                  *)
C5_ThreeNewlines ==
    \A k \in Blocks :
        stdout[k] = <<35, 35, 32, 91>> \o Encode(FolderName(Str(dirs[k])))
                      \o <<93, 40>> \o ExamplesPrefix \o Encode(Str(dirs[k]))
                      \o <<41>> \o <<NEWLINE, NEWLINE, NEWLINE>>

\* a block has been printed, and three newlines follow its ")"
C5_Witness ==
    /\ Len(stdout) >= 1
    /\ BlockTail(stdout[1]) = <<NEWLINE, NEWLINE, NEWLINE>>

(* C6: the link target of every block is "/examples/" and then the path    *)
(* string of the block's directory as the listing gave it, byte for byte:  *)
(* neither the case nor the hyphens of the name are changed in it.         *)
C6_TargetVerbatim ==
    \A k \in Blocks :
        /\ BlockTarget(stdout[k]) = ExamplesPrefix \o Encode(Str(dirs[k]))
        /\ \E n \in DirNames : BlockName(stdout[k]) = Encode(n)

\* a block whose title differs from the name in a hyphen and in case
C6_Witness ==
    \E k \in Blocks :
        /\ BlockName(stdout[k]) = <<97, 45, 98>>
        /\ BlockTitle(stdout[k]) = <<65, 32, 66>>
        /\ BlockTarget(stdout[k]) = ExamplesPrefix \o <<97, 45, 98>>

(* C7: a run that has ended has exit status 0 if and only if the listing   *)
(* was obtained: the failure of the listing is the only failure.           *)
C7_OnlyListingFails ==
    Ended => (status = 0 <=> err # "OSError")

(* C8: nothing is written to standard output before the listing, the       *)
(* filter and the sort are through: not while entries remain to be listed  *)
(* or the list is unsorted, and not in a run whose listing failed.         *)
C8_ListingBeforeOutput ==
    /\ (pending # <<>> \/ pc \in {"start", "filter"}) => stdout = <<>>
    /\ err = "OSError" => stdout = <<>>

\* a directory is found, entries remain to be listed, nothing is written
C8_Witness ==
    /\ pc = "filter"
    /\ pending # <<>>
    /\ dirs # <<>>
    /\ stdout = <<>>

C10_SameLengthCaseAndHyphen ==
    \A k \in Blocks :
        LET n == BlockName(stdout[k])
            t == BlockTitle(stdout[k])
        IN  /\ Len(t) = Len(n)
            /\ [p \in 1..Len(n) |->
                   IF n[p] = HYPHEN THEN HYPHEN ELSE Lower(t[p])] = LowerStr(n)

\* a name with a hyphen and letters of both cases has been printed
C10_Witness ==
    \E k \in Blocks :
        LET n == BlockName(stdout[k])
        IN  /\ \E p \in 1..Len(n) : n[p] = HYPHEN
            /\ \E p \in 1..Len(n) : IsUpper(n[p])
            /\ \E p \in 1..Len(n) : IsLower(n[p])
            /\ BlockTitle(stdout[k]) # n

====
